---- MODULE Spec2Model ----
(***************************************************************************)
(* Enrollment coordinator of the course-management web application.        *)
(*                                                                         *)
(* The Entity Store (students, enrollments, courses, logs) is shared by    *)
(* every browser session.  A session is one mounted StudentDashboard: it   *)
(* holds the `courses` React state (the last fetched course list) and the  *)
(* enrollInCourse / dropCourse handlers, which are async functions: every  *)
(* `await supabase...` is one store call, executed atomically by the       *)
(* store, and the handler is suspended between two calls.                  *)
(***************************************************************************)
EXTENDS Integers, Sequences, FiniteSets, Bags, TLC

\* ------------------------------------------------------------------ bounds

\* Largest max_capacity a course is created with.
MaxCapacity == 2
\* Commands (handler invocations) that may be suspended on a store call at once.
MaxInflight == 2
\* Store calls that return a transport/backend error in one behaviour.
MaxFaults == 1
\* Length of the action log after which no further command is started.
MaxLogs == 2

\* Signed-in students; each has one browser session (user.id names both).
Students == {"A", "B"}
\* Course ids.
Courses == {"X"}
\* Whether a store call returned data (TRUE) or an error (FALSE).
Answers == BOOLEAN
\* The answers of a store that never fails.
NoFault == {TRUE}

\* ------------------------------------------------------------ store helpers

\* The courses row as a client sees it: Course of types.ts, the two counters.
CourseRow(max, cur) == [max_capacity |-> max, current_enrollment |-> cur]

\* Result of `courses.find(c => c.id === courseId)` on a session's list:
\* the row, or undefined (found = FALSE) when the list does not hold the id.
FindCourse(list, c) ==
    IF c \in DOMAIN list
    THEN [found |-> TRUE, max_capacity |-> list[c].max_capacity,
          current_enrollment |-> list[c].current_enrollment]
    ELSE [found |-> FALSE, max_capacity |-> 0, current_enrollment |-> 0]

\* The course list before the first fetch: useState<Course[]>([]).
EmptyList == [c \in {} |-> CourseRow(0, 0)]

\* The capacity check of enrollInCourse.
CourseFullMutant(course) ==
    course.found /\ course.current_enrollment > course.max_capacity
CourseFull(course) ==
    course.found /\ course.current_enrollment >= course.max_capacity

\* The counter value enrollInCourse writes.
EnrollCount(course) ==
    IF course.found THEN course.current_enrollment + 1 ELSE 1

\* The counter value dropCourse writes.
DropCountMutant(course) ==
    IF course.found THEN course.current_enrollment - 1 ELSE 0
DropCount(course) ==
    IF course.found /\ course.current_enrollment > 0
    THEN course.current_enrollment - 1
    ELSE 0

\* The store's uniqueness constraint on enrollments (course_id, student_id):
\* an insert for a pair that has a row is rejected with code 23505.
UniqueViolationMutant(rows, c, s) == FALSE
UniqueViolation(rows, c, s) == rows[<<c, s>>] > 0

\* The store's primary key on students.id.
StudentKeyViolation(studs, s) == s \in studs

\* Number of enrollment rows of a course.
RECURSIVE SumRows(_, _, _)
SumRows(rows, c, S) ==
    IF S = {} THEN 0
    ELSE LET s == CHOOSE x \in S : TRUE
         IN rows[<<c, s>>] + SumRows(rows, c, S \ {s})
RowCount(rows, c) == SumRows(rows, c, Students)

\* A log row: action tag, performed_by, details.course_id.
LogRow(action, s, c) == [action |-> action, performed_by |-> s, course_id |-> c]

\* -------------------------------------------------------------------- state

VARIABLES
    students,       \* Entity Store: ids that have a students row
    enrollments,    \* Entity Store: <<course, student>> -> number of rows
    courses,        \* Entity Store: course id -> CourseRow
    logs,           \* Entity Store: the action log, oldest first
    localCourses,   \* per session: the `courses` React state
    fetching,       \* per session: a fetchCourses() call is outstanding
    cmds,           \* the bag of handler invocations suspended on a store call
    faults,         \* store calls that have returned an error so far
    result,         \* the notification of the command that has just ended
    authUsers,      \* auth.users: id -> raw_user_meta_data->>'role'
    profiles,       \* Entity Store: user_profiles, id -> the row's role field
    access,         \* the last row-policy decision of the store
    isLoading,      \* per dashboard: its isLoading flag (the loading view shows)
    staffCourses,   \* per staff dashboard: its `courses` list
    localStorage,   \* the browser's key/value store: demoCourses, demoLogs
    staffOp         \* the last staff operation and the stores it went to

vars == <<students, enrollments, courses, logs, localCourses, fetching, cmds,
          faults, result, authUsers, profiles, access, isLoading, staffCourses,
          localStorage, staffOp>>

\* What the enrollment handlers work on, what the row policies work on, and
\* what only the staff dashboards work on.
evars == <<enrollments, courses, logs, localCourses, fetching, cmds, faults, result,
           isLoading>>
pvars == <<authUsers, profiles, access>>
dvars == <<staffCourses, localStorage, staffOp>>

\* The ids of auth.users.
Users == {"A", "B"}
\* SQL NULL: auth.uid() of a caller without a session, a missing role.
Null == "null"
\* The values of the role attribute.
Roles == {"admin", "instructor", "student"}
\* user_profiles holds no row for the id.
Absent == "absent"

\* A caller as the policies see it: auth.uid() and the database role.
Caller(uid) ==
    [uid |-> uid, dbrole |-> IF uid = Null THEN "anon" ELSE "authenticated"]
Callers == {Caller(u) : u \in Users \cup {Null}}

\* No policy decision has been taken.
NoAccess ==
    [op |-> "none", caller |-> Caller(Null), row |-> Null, newId |-> Null,
     permitted |-> FALSE, fields |-> {}]

Pairs == Courses \X Students

\* A handler invocation: where it is suspended (pc), what it was called with
\* (kind, sess, course), the course it found in the list it started with
\* (snap), the tables it has written and whether a store call of its failed.
NewCmd(kind, s, c, snap, pc) ==
    [pc |-> pc, kind |-> kind, sess |-> s, course |-> c, snap |-> snap,
     writes |-> {}, faulted |-> FALSE]

NoCmd == NewCmd("none", "none", "none", FindCourse(EmptyList, "none"), "none")

\* No command has just ended.
NoResult == [outcome |-> "none", cmd |-> NoCmd]

Running == BagToSet(cmds)

\* No handler invocation is in progress.
Idle == cmds = EmptyBag

\* A command may start while fewer than MaxInflight are in progress and the
\* log still has room for every command in progress.
Room ==
    /\ BagCardinality(cmds) < MaxInflight
    /\ Len(logs) + BagCardinality(cmds) < MaxLogs

\* The browser's key/value store with neither key set, and no staff
\* operation yet.
EmptyStorage ==
    [demoCourses |-> [set |-> FALSE, value |-> EmptyList],
     demoLogs |-> [set |-> FALSE, value |-> <<>>]]
NoOp == [name |-> "none", user |-> "none", course |-> "none", ok |-> TRUE,
         touched |-> {}, shown |-> <<>>]

\* No staff dashboard is open.
NoStaff ==
    /\ staffCourses = EmptyList
    /\ localStorage = EmptyStorage
    /\ staffOp = NoOp

\* The store before any session acts: enrollment rows left by earlier
\* sessions, every counter equal to its course's row count and within capacity.
Init ==
    /\ students \in SUBSET Students
    /\ enrollments \in [Pairs -> {0, 1}]
    /\ \A p \in Pairs : enrollments[p] = 1 => p[2] \in students
    /\ courses \in [Courses -> {CourseRow(m, n) : m \in 1..MaxCapacity, n \in 0..MaxCapacity}]
    /\ \A c \in Courses :
          /\ courses[c].current_enrollment = RowCount(enrollments, c)
          /\ courses[c].current_enrollment <= courses[c].max_capacity
    /\ logs = <<>>
    /\ localCourses = [s \in Students |-> EmptyList]
    /\ fetching = [s \in Students |-> TRUE]
    /\ cmds = EmptyBag
    /\ faults = 0
    /\ result = NoResult
    /\ authUsers = [u \in Users |-> "student"]
    /\ profiles = [u \in Users |-> "student"]
    /\ access = NoAccess
    /\ isLoading = [s \in Students |-> TRUE]
    /\ NoStaff

\* A store call returns data (ok) or an error; errors are bounded by MaxFaults.
CallOutcome(ok) ==
    /\ ok \/ faults < MaxFaults
    /\ faults' = IF ok THEN faults ELSE faults + 1

\* The handler `cmd` moves on to its next store call.
Goto(cmd, next, pc) ==
    /\ cmds' = (cmds (-) SetToBag({cmd})) (+) SetToBag({[next EXCEPT !.pc = pc]})
    /\ result' = NoResult

\* The handler `cmd` returns after notifying `outcome`.
Finish(cmd, last, outcome) ==
    /\ cmds' = cmds (-) SetToBag({cmd})
    /\ result' = [outcome |-> outcome, cmd |-> [last EXCEPT !.pc = "done"]]

\* The handler starts: it is suspended on its first store call.
Launch(cmd) ==
    /\ Room
    /\ cmds' = cmds (+) SetToBag({cmd})
    /\ result' = NoResult

\* ------------------------------------------------------------- fetchCourses

\* fetchCourses, which set isLoading when it was called: select * from
\* courses, then setCourses(data) and setIsLoading(false); on an error it
\* returns with the list and the flag left as they were.
FetchCourses(s, F) ==
    /\ fetching[s]
    /\ \E ok \in F :
         /\ CallOutcome(ok)
         /\ localCourses' =
              [localCourses EXCEPT ![s] = IF ok THEN courses ELSE @]
         /\ isLoading' = [isLoading EXCEPT ![s] = IF ok THEN FALSE ELSE @]
    /\ fetching' = [fetching EXCEPT ![s] = FALSE]
    /\ result' = NoResult
    /\ UNCHANGED <<students, enrollments, courses, logs, cmds>>

\* ----------------------------------------------------------- enrollInCourse

\* The Enroll click: the button is rendered for the courses of the list, and
\* enrollInCourse(c) starts with the `courses` list of that render and awaits
\* ensureStudentProfile().  The button's `disabled` repeats the handler's own
\* capacity check on the same list and is left to the handler.
StartEnroll(s, c) ==
    /\ c \in DOMAIN localCourses[s]
    /\ Launch(NewCmd("enroll", s, c, FindCourse(localCourses[s], c), "students_select"))
    /\ UNCHANGED <<students, enrollments, courses, logs, localCourses, fetching, isLoading, faults>>

\* enrollInCourse once ensureStudentProfile() has returned true: "Check if
\* course is already full", on the list the handler started with, and either
\* notify and return or issue the enrollment insert.
CapacityCheckThenCount(cmd, cur) ==
    IF CourseFull(cur.snap)
    THEN Finish(cmd, cur, "full")
    ELSE Goto(cmd, cur, "enroll_count")
CapacityCheck(cmd, cur) ==
    IF CourseFull(cur.snap)
    THEN Finish(cmd, cur, "full")
    ELSE Goto(cmd, cur, "enroll_insert")

\* ensureStudentProfile: select id from students where id = user.id.
StudentsSelect(cmd, F) ==
    /\ cmd.pc = "students_select"
    /\ \E ok \in F :
         /\ CallOutcome(ok)
         /\ IF ~ok
            THEN Finish(cmd, [cmd EXCEPT !.faulted = TRUE], "profile_failed")
            ELSE IF cmd.sess \in students
                 THEN CapacityCheck(cmd, cmd)
                 ELSE Goto(cmd, cmd, "profile_select")
    /\ UNCHANGED <<students, enrollments, courses, logs, localCourses, fetching, isLoading>>

\* ensureStudentProfile: select name, email from user_profiles.
ProfileSelectIgnoringError(cmd, F) ==
    /\ cmd.pc = "profile_select"
    /\ \E ok \in F :
         /\ CallOutcome(ok)
         /\ IF ok
            THEN Goto(cmd, cmd, "students_insert")
            ELSE Goto(cmd, [cmd EXCEPT !.faulted = TRUE], "students_insert")
    /\ UNCHANGED <<students, enrollments, courses, logs, localCourses, fetching, isLoading>>
ProfileSelect(cmd, F) ==
    /\ cmd.pc = "profile_select"
    /\ \E ok \in F :
         /\ CallOutcome(ok)
         /\ IF ok
            THEN Goto(cmd, cmd, "students_insert")
            ELSE Finish(cmd, [cmd EXCEPT !.faulted = TRUE], "profile_failed")
    /\ UNCHANGED <<students, enrollments, courses, logs, localCourses, fetching, isLoading>>

\* ensureStudentProfile: insert the students row.
StudentsInsert(cmd, F) ==
    /\ cmd.pc = "students_insert"
    /\ \E ok \in F :
         /\ CallOutcome(ok)
         /\ IF ~ok
            THEN /\ Finish(cmd, [cmd EXCEPT !.faulted = TRUE], "profile_failed")
                 /\ UNCHANGED students
            ELSE IF StudentKeyViolation(students, cmd.sess)
                 THEN /\ Finish(cmd, cmd, "profile_failed")
                      /\ UNCHANGED students
                 ELSE /\ students' = students \cup {cmd.sess}
                      /\ CapacityCheck(cmd, [cmd EXCEPT !.writes = @ \cup {"students"}])
    /\ UNCHANGED <<enrollments, courses, logs, localCourses, fetching, isLoading>>

\* insert into enrollments (course_id, student_id, enrollment_status).
EnrollInsertThenCheck(cmd, F) ==
    /\ cmd.pc = "enroll_insert"
    /\ \E ok \in F :
         /\ CallOutcome(ok)
         /\ IF ~ok
            THEN /\ Finish(cmd, [cmd EXCEPT !.faulted = TRUE], "enroll_failed")
                 /\ UNCHANGED enrollments
            ELSE IF UniqueViolation(enrollments, cmd.course, cmd.sess)
                 THEN /\ Finish(cmd, cmd, "duplicate")
                      /\ UNCHANGED enrollments
                 ELSE /\ enrollments' =
                           [enrollments EXCEPT ![<<cmd.course, cmd.sess>>] = @ + 1]
                      /\ IF courses[cmd.course].current_enrollment
                              >= courses[cmd.course].max_capacity
                         THEN Finish(cmd, [cmd EXCEPT !.writes = @ \cup {"enrollments"}],
                                     "full")
                         ELSE Goto(cmd, [cmd EXCEPT !.writes = @ \cup {"enrollments"}],
                                   "enroll_count")
    /\ UNCHANGED <<students, courses, logs, localCourses, fetching, isLoading>>
EnrollInsert(cmd, F) ==
    /\ cmd.pc = "enroll_insert"
    /\ \E ok \in F :
         /\ CallOutcome(ok)
         /\ IF ~ok
            THEN /\ Finish(cmd, [cmd EXCEPT !.faulted = TRUE], "enroll_failed")
                 /\ UNCHANGED enrollments
            ELSE IF UniqueViolation(enrollments, cmd.course, cmd.sess)
                 THEN /\ Finish(cmd, cmd, "duplicate")
                      /\ UNCHANGED enrollments
                 ELSE /\ enrollments' =
                           [enrollments EXCEPT ![<<cmd.course, cmd.sess>>] = @ + 1]
                      /\ Goto(cmd, [cmd EXCEPT !.writes = @ \cup {"enrollments"}],
                              "enroll_count")
    /\ UNCHANGED <<students, courses, logs, localCourses, fetching, isLoading>>

\* update courses set current_enrollment = ... where id = courseId; an error
\* is written to the console and the handler goes on.
EnrollCountUpdateRollback(cmd, F) ==
    /\ cmd.pc = "enroll_count"
    /\ \E ok \in F :
         /\ CallOutcome(ok)
         /\ IF ok
            THEN IF RowCount(enrollments, cmd.course) > courses[cmd.course].max_capacity
                 THEN /\ enrollments' =
                           [enrollments EXCEPT ![<<cmd.course, cmd.sess>>] = 0]
                      /\ UNCHANGED courses
                      /\ Goto(cmd, cmd, "enroll_log")
                 ELSE /\ courses' = [courses EXCEPT
                            ![cmd.course].current_enrollment = EnrollCount(cmd.snap)]
                      /\ UNCHANGED enrollments
                      /\ Goto(cmd, [cmd EXCEPT !.writes = @ \cup {"courses"}],
                              "enroll_log")
            ELSE /\ UNCHANGED <<courses, enrollments>>
                 /\ Goto(cmd, [cmd EXCEPT !.faulted = TRUE], "enroll_log")
    /\ UNCHANGED <<students, logs, localCourses, fetching, isLoading>>
EnrollCountUpdate(cmd, F) ==
    /\ cmd.pc = "enroll_count"
    /\ \E ok \in F :
         /\ CallOutcome(ok)
         /\ IF ok
            THEN /\ courses' = [courses EXCEPT
                       ![cmd.course].current_enrollment = EnrollCount(cmd.snap)]
                 /\ Goto(cmd, [cmd EXCEPT !.writes = @ \cup {"courses"}], "enroll_log")
            ELSE /\ UNCHANGED courses
                 /\ Goto(cmd, [cmd EXCEPT !.faulted = TRUE], "enroll_log")
    /\ UNCHANGED <<students, enrollments, logs, localCourses, fetching, isLoading>>

\* insert the 'student_enrolled' log row (its result is not looked at), then
\* toast.success and fetchCourses().
EnrollLogInsertOrFail(cmd, F) ==
    /\ cmd.pc = "enroll_log"
    /\ \E ok \in F :
         /\ CallOutcome(ok)
         /\ IF ok
            THEN /\ logs' = Append(logs, LogRow("student_enrolled", cmd.sess, cmd.course))
                 /\ Finish(cmd, [cmd EXCEPT !.writes = @ \cup {"logs"}], "success")
            ELSE /\ UNCHANGED logs
                 /\ Finish(cmd, [cmd EXCEPT !.faulted = TRUE], "enroll_failed")
    /\ fetching' = [fetching EXCEPT ![cmd.sess] = TRUE]
    /\ isLoading' = [isLoading EXCEPT ![cmd.sess] = TRUE]
    /\ UNCHANGED <<students, enrollments, courses, localCourses>>
EnrollLogInsert(cmd, F) ==
    /\ cmd.pc = "enroll_log"
    /\ \E ok \in F :
         /\ CallOutcome(ok)
         /\ IF ok
            THEN /\ logs' = Append(logs, LogRow("student_enrolled", cmd.sess, cmd.course))
                 /\ Finish(cmd, [cmd EXCEPT !.writes = @ \cup {"logs"}], "success")
            ELSE /\ UNCHANGED logs
                 /\ Finish(cmd, [cmd EXCEPT !.faulted = TRUE], "success")
    /\ fetching' = [fetching EXCEPT ![cmd.sess] = TRUE]
    /\ isLoading' = [isLoading EXCEPT ![cmd.sess] = TRUE]
    /\ UNCHANGED <<students, enrollments, courses, localCourses>>

\* --------------------------------------------------------------- dropCourse

\* The Drop click (in the course list or in My Enrollments, which is rendered
\* whether or not the course list has loaded): dropCourse(c) starts with the
\* `courses` list of that render and issues the delete.
StartDrop(s, c) ==
    /\ Launch(NewCmd("drop", s, c, FindCourse(localCourses[s], c), "drop_delete"))
    /\ UNCHANGED <<students, enrollments, courses, logs, localCourses, fetching, isLoading, faults>>

\* delete from enrollments where course_id = c and student_id = user.id; a
\* delete that matches no row is not an error.
DropDelete(cmd, F) ==
    /\ cmd.pc = "drop_delete"
    /\ \E ok \in F :
         /\ CallOutcome(ok)
         /\ IF ok
            THEN /\ enrollments' = [enrollments EXCEPT ![<<cmd.course, cmd.sess>>] = 0]
                 /\ Goto(cmd,
                         [cmd EXCEPT !.writes =
                            IF enrollments[<<cmd.course, cmd.sess>>] > 0
                            THEN @ \cup {"enrollments"} ELSE @],
                         "drop_count")
            ELSE /\ UNCHANGED enrollments
                 /\ Finish(cmd, [cmd EXCEPT !.faulted = TRUE], "drop_failed")
    /\ UNCHANGED <<students, courses, logs, localCourses, fetching, isLoading>>

\* update courses set current_enrollment = ... where id = courseId; an error
\* is written to the console and the handler goes on.
DropCountUpdateOrReturn(cmd, F) ==
    /\ cmd.pc = "drop_count"
    /\ \E ok \in F :
         /\ CallOutcome(ok)
         /\ IF ok
            THEN /\ courses' = [courses EXCEPT
                       ![cmd.course].current_enrollment = DropCount(cmd.snap)]
                 /\ Goto(cmd, [cmd EXCEPT !.writes = @ \cup {"courses"}], "drop_log")
            ELSE /\ UNCHANGED courses
                 /\ Finish(cmd, [cmd EXCEPT !.faulted = TRUE], "drop_failed")
    /\ UNCHANGED <<students, enrollments, logs, localCourses, fetching, isLoading>>
DropCountUpdate(cmd, F) ==
    /\ cmd.pc = "drop_count"
    /\ \E ok \in F :
         /\ CallOutcome(ok)
         /\ IF ok
            THEN /\ courses' = [courses EXCEPT
                       ![cmd.course].current_enrollment = DropCount(cmd.snap)]
                 /\ Goto(cmd, [cmd EXCEPT !.writes = @ \cup {"courses"}], "drop_log")
            ELSE /\ UNCHANGED courses
                 /\ Goto(cmd, [cmd EXCEPT !.faulted = TRUE], "drop_log")
    /\ UNCHANGED <<students, enrollments, logs, localCourses, fetching, isLoading>>

\* insert the 'student_dropped' log row (its result is not looked at), then
\* toast.success and fetchCourses().
DropLogInsert(cmd, F) ==
    /\ cmd.pc = "drop_log"
    /\ \E ok \in F :
         /\ CallOutcome(ok)
         /\ IF ok
            THEN /\ logs' = Append(logs, LogRow("student_dropped", cmd.sess, cmd.course))
                 /\ Finish(cmd, [cmd EXCEPT !.writes = @ \cup {"logs"}], "success")
            ELSE /\ UNCHANGED logs
                 /\ Finish(cmd, [cmd EXCEPT !.faulted = TRUE], "success")
    /\ fetching' = [fetching EXCEPT ![cmd.sess] = TRUE]
    /\ isLoading' = [isLoading EXCEPT ![cmd.sess] = TRUE]
    /\ UNCHANGED <<students, enrollments, courses, localCourses>>

\* ------------------------------------------------------------ specifications

\* A click on Enroll or Drop in the session of a student of S; the buttons
\* stay active while a handler runs.
Start(S) ==
    \E s \in S, c \in Courses :
        \/ StartEnroll(s, c)
        \/ StartDrop(s, c)

\* The store answers, with an answer of F, the call a handler is suspended on.
Step(F) ==
    \E cmd \in Running :
        \/ StudentsSelect(cmd, F)
        \/ ProfileSelect(cmd, F)
        \/ StudentsInsert(cmd, F)
        \/ EnrollInsert(cmd, F)
        \/ EnrollCountUpdate(cmd, F)
        \/ EnrollLogInsert(cmd, F)
        \/ DropDelete(cmd, F)
        \/ DropCountUpdate(cmd, F)
        \/ DropLogInsert(cmd, F)

Fetch(F) == \E s \in Students : FetchCourses(s, F)

\* Every session, commands in any interleaving, a store that never fails.
Next ==
    /\ Start(Students) \/ Step(NoFault) \/ Fetch(NoFault)
    /\ UNCHANGED <<pvars, dvars>>
Spec == Init /\ [][Next]_vars

\* Commands that do not overlap in time (one starts only when none is in
\* progress), from every session, store calls that may fail.
NextSeq ==
    /\ (Idle /\ Start(Students)) \/ Step(Answers) \/ Fetch(Answers)
    /\ UNCHANGED <<pvars, dvars>>
SpecSeq == Init /\ [][NextSeq]_vars

\* One session (student A's) whose commands do not overlap in time.
NextSolo ==
    /\ (Idle /\ Start({"A"})) \/ Step(Answers) \/ Fetch(Answers)
    /\ UNCHANGED <<pvars, dvars>>
SpecSolo == Init /\ [][NextSolo]_vars

\* The same, where every store call a handler is suspended on eventually
\* returns (with data or with an error).
SpecSoloFair == SpecSolo /\ WF_vars(Step(Answers) /\ UNCHANGED <<pvars, dvars>>)

\* ------------------------------------------------------------- row policies

\* SQL's three-valued logic: "true", "false" or Null.
SqlBool(b) == IF b THEN "true" ELSE "false"
SqlEq(a, b) == IF a = Null \/ b = Null THEN Null ELSE SqlBool(a = b)
SqlIsNull(a) == SqlBool(a = Null)
SqlOr(x, y) ==
    IF x = "true" \/ y = "true" THEN "true"
    ELSE IF x = Null \/ y = Null THEN Null ELSE "false"
SqlAnd(x, y) ==
    IF x = "false" \/ y = "false" THEN "false"
    ELSE IF x = Null \/ y = Null THEN Null ELSE "true"
\* A USING or WITH CHECK expression lets the row through only when it is true.
Holds(x) == x = "true"

\* EXISTS (SELECT 1 FROM auth.users WHERE auth.uid() = id AND
\* raw_user_meta_data->>'role' = 'admin').
is_admin_from_profile(uid) ==
    \E u \in Users :
        Holds(SqlAnd(SqlEq(uid, u), SqlEq(profiles[u], "admin")))
is_admin_from_metadata(uid) ==
    \E u \in Users :
        Holds(SqlAnd(SqlEq(uid, u), SqlEq(authUsers[u], "admin")))

is_instructor_from_metadata(uid) ==
    \E u \in Users :
        Holds(SqlAnd(SqlEq(uid, u), SqlEq(authUsers[u], "instructor")))

is_student_from_metadata(uid) ==
    \E u \in Users :
        Holds(SqlAnd(SqlEq(uid, u), SqlEq(authUsers[u], "student")))

\* FOR SELECT TO authenticated USING (id = auth.uid() OR is_admin_from_metadata()).
allow_users_to_read_own_profile_owner_only(caller, id) ==
    /\ caller.dbrole \in {"authenticated"}
    /\ Holds(SqlEq(id, caller.uid))
allow_users_to_read_own_profile(caller, id) ==
    /\ caller.dbrole \in {"authenticated"}
    /\ Holds(SqlOr(SqlEq(id, caller.uid),
                   SqlBool(is_admin_from_metadata(caller.uid))))

\* FOR UPDATE TO authenticated USING (id = auth.uid()) WITH CHECK (id = auth.uid()):
\* USING on the row as it is, WITH CHECK on the row as written.
allow_users_to_update_own_profile_unchecked(caller, id, newId) ==
    /\ caller.dbrole \in {"authenticated"}
    /\ Holds(SqlEq(id, caller.uid))
allow_users_to_update_own_profile(caller, id, newId) ==
    /\ caller.dbrole \in {"authenticated"}
    /\ Holds(SqlEq(id, caller.uid))
    /\ Holds(SqlEq(newId, caller.uid))

\* FOR INSERT TO authenticated, anon
\* WITH CHECK (id = auth.uid() OR auth.uid() IS NULL).
allow_users_to_create_profile_any_id(caller, newId) ==
    /\ caller.dbrole \in {"authenticated", "anon"}
allow_users_to_create_profile_during_signup(caller, newId) ==
    /\ caller.dbrole \in {"authenticated", "anon"}
    /\ Holds(SqlOr(SqlEq(newId, caller.uid), SqlIsNull(caller.uid)))

\* FOR SELECT TO authenticated USING (id = auth.uid() OR
\* is_admin_from_metadata() OR is_instructor_from_metadata()).
allow_students_to_read_own_record_no_instructor(caller, id) ==
    /\ caller.dbrole \in {"authenticated"}
    /\ Holds(SqlOr(SqlEq(id, caller.uid),
                   SqlBool(is_admin_from_metadata(caller.uid))))
allow_students_to_read_own_record(caller, id) ==
    /\ caller.dbrole \in {"authenticated"}
    /\ Holds(SqlOr(SqlOr(SqlEq(id, caller.uid),
                         SqlBool(is_admin_from_metadata(caller.uid))),
                   SqlBool(is_instructor_from_metadata(caller.uid))))

\* FOR UPDATE TO authenticated USING (id = auth.uid()) WITH CHECK (id = auth.uid()).
allow_students_to_update_own_record(caller, id, newId) ==
    /\ caller.dbrole \in {"authenticated"}
    /\ Holds(SqlEq(id, caller.uid))
    /\ Holds(SqlEq(newId, caller.uid))

\* FOR INSERT TO authenticated WITH CHECK (id = auth.uid()).
allow_students_to_create_own_record(caller, newId) ==
    /\ caller.dbrole \in {"authenticated"}
    /\ Holds(SqlEq(newId, caller.uid))

\* The columns get_user_profile_direct returns of a user_profiles row (email
\* and name go with the id).
ProfileFields(id) == [id |-> id, role |-> profiles[id]]

\* SELECT id, email, name, role FROM user_profiles WHERE id = user_id, run
\* SECURITY DEFINER: with the rights of the function's owner, row policies of
\* the caller not applied.
get_user_profile_direct(user_id) ==
    {ProfileFields(u) : u \in {x \in Users : profiles[x] # Absent /\ x = user_id}}

\* The store's primary key on user_profiles.id.
ProfileKeyViolation(profs, id) == profs[id] # Absent

\* The decision the store has just taken.
Decided(op, caller, id, newId, permitted, fields) ==
    access' = [op |-> op, caller |-> caller, row |-> id, newId |-> newId,
               permitted |-> permitted, fields |-> fields]

\* select from user_profiles where id = ... by `caller`.
SelectProfile(caller, id) ==
    /\ profiles[id] # Absent
    /\ LET permitted == allow_users_to_read_own_profile(caller, id)
       IN Decided("select_profile", caller, id, id, permitted,
                  IF permitted THEN {ProfileFields(id)} ELSE {})
    /\ UNCHANGED <<authUsers, profiles, students>>
    /\ UNCHANGED evars

\* update user_profiles set id = newId, role = role where id = ... by `caller`.
UpdateProfile(caller, id, newId, role) ==
    /\ profiles[id] # Absent
    /\ LET permitted == allow_users_to_update_own_profile(caller, id, newId)
           applied == permitted /\ (newId = id \/ ~ProfileKeyViolation(profiles, newId))
       IN /\ Decided("update_profile", caller, id, newId, permitted, {})
          /\ profiles' = IF applied
                         THEN [[profiles EXCEPT ![id] = Absent] EXCEPT ![newId] = role]
                         ELSE profiles
    /\ UNCHANGED <<authUsers, students>>
    /\ UNCHANGED evars

\* insert into user_profiles (id, role) by `caller`.
InsertProfile(caller, newId, role) ==
    /\ LET permitted == allow_users_to_create_profile_during_signup(caller, newId)
           applied == permitted /\ ~ProfileKeyViolation(profiles, newId)
       IN /\ Decided("insert_profile", caller, newId, newId, permitted, {})
          /\ profiles' = IF applied THEN [profiles EXCEPT ![newId] = role] ELSE profiles
    /\ UNCHANGED <<authUsers, students>>
    /\ UNCHANGED evars

\* select from students where id = ... by `caller`.
SelectStudent(caller, id) ==
    /\ id \in students
    /\ LET permitted == allow_students_to_read_own_record(caller, id)
       IN Decided("select_student", caller, id, id, permitted, {})
    /\ UNCHANGED <<authUsers, profiles, students>>
    /\ UNCHANGED evars

\* update students set id = newId, ... where id = ... by `caller`.
UpdateStudent(caller, id, newId) ==
    /\ id \in students
    /\ LET permitted == allow_students_to_update_own_record(caller, id, newId)
           applied == permitted /\ (newId = id \/ ~StudentKeyViolation(students, newId))
       IN /\ Decided("update_student", caller, id, newId, permitted, {})
          /\ students' = IF applied THEN (students \ {id}) \cup {newId} ELSE students
    /\ UNCHANGED <<authUsers, profiles>>
    /\ UNCHANGED evars

\* insert into students (id, ...) by `caller`.
InsertStudent(caller, newId) ==
    /\ LET permitted == allow_students_to_create_own_record(caller, newId)
           applied == permitted /\ ~StudentKeyViolation(students, newId)
       IN /\ Decided("insert_student", caller, newId, newId, permitted, {})
          /\ students' = IF applied THEN students \cup {newId} ELSE students
    /\ UNCHANGED <<authUsers, profiles>>
    /\ UNCHANGED evars

\* Who holds EXECUTE on get_user_profile_direct after the migration: PUBLIC,
\* which CREATE FUNCTION grants to a new function and the migration does not
\* revoke, and `authenticated`, which the migration's GRANT adds.
ExecuteGrantees == {"PUBLIC", "authenticated"}

\* The privilege check of a function call: every database role is a member
\* of PUBLIC.
MayExecute(caller) ==
    "PUBLIC" \in ExecuteGrantees \/ caller.dbrole \in ExecuteGrantees

\* select * from get_user_profile_direct(user_id) by `caller`: the call is
\* rejected unless the caller holds EXECUTE.
CallProfileDirect(caller, user_id) ==
    /\ LET permitted == MayExecute(caller)
       IN Decided("get_user_profile_direct", caller, user_id, user_id, permitted,
                  IF permitted THEN get_user_profile_direct(user_id) ELSE {})
    /\ UNCHANGED <<authUsers, profiles, students>>
    /\ UNCHANGED evars

\* The store after the migration: identities with any role attribute, no
\* user_profiles and no students row yet, one empty course.
InitPolicy ==
    /\ authUsers \in [Users -> Roles \cup {Null}]
    /\ profiles = [u \in Users |-> Absent]
    /\ access = NoAccess
    /\ students = {}
    /\ enrollments = [p \in Pairs |-> 0]
    /\ courses = [c \in Courses |-> CourseRow(1, 0)]
    /\ logs = <<>>
    /\ localCourses = [s \in Students |-> EmptyList]
    /\ fetching = [s \in Students |-> TRUE]
    /\ cmds = EmptyBag
    /\ faults = 0
    /\ result = NoResult
    /\ isLoading = [s \in Students |-> TRUE]
    /\ NoStaff

\* Any caller issues any statement on user_profiles or students, or calls the
\* direct lookup.
NextPolicy ==
    /\ \E caller \in Callers, id \in Users :
        \/ SelectProfile(caller, id)
        \/ \E newId \in Users, role \in Roles : UpdateProfile(caller, id, newId, role)
        \/ \E role \in Roles : InsertProfile(caller, id, role)
        \/ SelectStudent(caller, id)
        \/ \E newId \in Users : UpdateStudent(caller, id, newId)
        \/ InsertStudent(caller, id)
        \/ CallProfileDirect(caller, id)
    /\ UNCHANGED dvars
SpecPolicy == InitPolicy /\ [][NextPolicy]_vars

\* --------------------------------------------------------- staff dashboards

\* The three fixed ids the handlers treat as demo identities.
DemoAdminId == "11111111-2222-3333-4444-555555555555"
DemoStudentId == "12345678-1234-1234-1234-123456789012"
DemoInstructorId == "87654321-4321-4321-4321-210987654321"

\* isDemoUser of AdminDashboard, AddCourseModal and EditCourseModal.
isDemoUserAnyone(userId) == TRUE
isDemoUser(userId) ==
    \/ userId = DemoAdminId
    \/ userId = DemoStudentId
    \/ userId = DemoInstructorId

\* The signed-in staff: user of useAuthStore (id, role, name).
Admin == [id |-> "adm", role |-> "admin", name |-> "Ada"]
Instructor == [id |-> "ins", role |-> "instructor", name |-> "Ina"]
DemoAdmin == [id |-> DemoAdminId, role |-> "admin", name |-> "Demo Admin"]

\* The rows of the instructors table, which no handler writes: id -> name.
InstructorsTable == ("ins" :> "Ina") @@ ("ins2" :> "Ivo")

\* Course ids the Entity Store hands out, and ids generateUUID() returns.
CatalogIds == {"X", "Y"}
DemoNewIds == {"uuid-1"}

\* A courses row as the staff handlers read and write it.
StaffRow(iid, iname, max, cur) ==
    [instructor_id |-> iid, instructor |-> iname,
     max_capacity |-> max, current_enrollment |-> cur]

\* The sample courses of getDemoCoursesFromStorage.
Sample1Capacity == 30
Sample1Enrollment == 15
Sample2Capacity == 25
Sample2Enrollment == 18
SampleCourses ==
    ("course-1" :> StaffRow(DemoInstructorId, "Demo Instructor",
                            Sample1Capacity, Sample1Enrollment))
    @@ ("course-2" :> StaffRow(DemoInstructorId, "Demo Instructor",
                               Sample2Capacity, Sample2Enrollment))

\* addDemoLog keeps this many entries.
DemoLogKeep == 20
\* Demo log entries written in one behaviour.
MaxDemoLogs == 21

\* A localStorage item: set or not, and what JSON.parse(getItem(k) || '[]')
\* gives.
Item(v) == [set |-> TRUE, value |-> v]

\* A demo log entry: created_at (which also makes its id), action,
\* performed_by.
DemoLog(at, action, by) == [at |-> at, action |-> action, performed_by |-> by]

\* new Date().getTime() when an entry is added: later than every entry's.
RECURSIVE Latest(_)
Latest(entries) ==
    IF entries = <<>> THEN 0
    ELSE LET rest == Latest(Tail(entries))
         IN IF Head(entries).at > rest THEN Head(entries).at ELSE rest
Now(store) == Latest(store.demoLogs.value) + 1

\* getDemoCoursesFromStorage: the stored list, or, when it is empty, the
\* sample courses, which are also stored.
getDemoCoursesFromStorage(store) ==
    IF DOMAIN store.demoCourses.value = {}
    THEN [courses |-> SampleCourses,
          store |-> [store EXCEPT !.demoCourses = Item(SampleCourses)]]
    ELSE [courses |-> store.demoCourses.value, store |-> store]

\* addDemoLog: the entry goes to the front, the first DemoLogKeep are kept.
addDemoLog(store, log) ==
    LET all == <<log>> \o store.demoLogs.value
    IN [store EXCEPT !.demoLogs =
          Item(SubSeq(all, 1, IF Len(all) < DemoLogKeep THEN Len(all) ELSE DemoLogKeep))]

\* removeCourseFromDemoStorage.
removeCourseFromDemoStorage(store, user, courseId) ==
    LET list == store.demoCourses.value
        updated == [k \in DOMAIN list \ {courseId} |-> list[k]]
    IN addDemoLog([store EXCEPT !.demoCourses = Item(updated)],
                  DemoLog(Now(store), "course_deleted", user.id))

\* generateDemoLogs: the stored entries, or, when there are none, two made-up
\* entries, which are also stored.
generateDemoLogs(store) ==
    IF Len(store.demoLogs.value) > 0
    THEN [logs |-> store.demoLogs.value, store |-> store]
    ELSE LET fake == <<DemoLog(0, "course_created", DemoAdminId),
                       DemoLog(0, "course_created", DemoInstructorId)>>
         IN [logs |-> fake, store |-> [store EXCEPT !.demoLogs = Item(fake)]]

\* saveCourseToDemoStorage.
saveCourseToDemoStorage(store, id, row) ==
    [store EXCEPT !.demoCourses = Item(store.demoCourses.value @@ (id :> row))]

\* updateCourseInDemoStorage: { ...c, ...updates } for the course of that id.
updateCourseInDemoStorage(store, courseId, iid, iname, max) ==
    LET list == store.demoCourses.value
    IN [store EXCEPT !.demoCourses =
          Item([k \in DOMAIN list |->
                  IF k = courseId
                  THEN [list[k] EXCEPT !.instructor_id = iid, !.instructor = iname,
                                       !.max_capacity = max]
                  ELSE list[k]])]

\* The name the admin's select shows for an instructor id.
InstructorName(iid) ==
    IF iid \in DOMAIN InstructorsTable THEN InstructorsTable[iid]
    ELSE "Unknown Instructor"

\* The staff operation that has just run.
Ran(name, user, course, ok, touched, shown) ==
    staffOp' = [name |-> name, user |-> user.id, course |-> course, ok |-> ok,
                touched |-> touched, shown |-> shown]

\* Two store calls in a row, the second made only if the first returned data.
TwoCalls(ok, ok2) ==
    LET errors == (IF ok THEN 0 ELSE 1) + (IF ok /\ ~ok2 THEN 1 ELSE 0)
    IN /\ faults + errors <= MaxFaults
       /\ faults' = faults + errors

\* What the staff handlers leave alone.
StaffUnchanged == UNCHANGED <<students, enrollments, localCourses, cmds, result, pvars>>

\* fetchCourses of AdminDashboard (which set isLoading when it was called).
AdminFetchCourses(u, F) ==
    /\ fetching[u.id]
    /\ IF isDemoUser(u.id)
       THEN LET r == getDemoCoursesFromStorage(localStorage)
            IN /\ localStorage' = r.store
               /\ staffCourses' = [staffCourses EXCEPT ![u.id] = r.courses]
               /\ Ran("fetchCourses", u, "none", TRUE, {"demo"}, <<>>)
               /\ UNCHANGED faults
       ELSE \E ok \in F :
               /\ CallOutcome(ok)
               /\ staffCourses' = [staffCourses EXCEPT ![u.id] = IF ok THEN courses ELSE @]
               /\ Ran("fetchCourses", u, "none", ok, {"entity"}, <<>>)
               /\ UNCHANGED localStorage
    /\ isLoading' = [isLoading EXCEPT ![u.id] = FALSE]
    /\ fetching' = [fetching EXCEPT ![u.id] = FALSE]
    /\ UNCHANGED <<courses, logs>>
    /\ StaffUnchanged

\* fetchInstructorCourses of InstructorDashboard: the courses whose
\* instructor_id is the user's.
InstructorFetchCourses(u, F) ==
    /\ fetching[u.id]
    /\ \E ok \in F :
         /\ CallOutcome(ok)
         /\ staffCourses' =
              [staffCourses EXCEPT ![u.id] =
                 IF ok
                 THEN [k \in {x \in DOMAIN courses : courses[x].instructor_id = u.id}
                         |-> courses[k]]
                 ELSE @]
         /\ Ran("fetchCourses", u, "none", ok, {"entity"}, <<>>)
    /\ isLoading' = [isLoading EXCEPT ![u.id] = FALSE]
    /\ fetching' = [fetching EXCEPT ![u.id] = FALSE]
    /\ UNCHANGED <<courses, logs, localStorage>>
    /\ StaffUnchanged

\* fetchLogs of AdminDashboard: the select on the Entity Store's logs comes
\* first, for every user; a demo user then gets generateDemoLogs().
FetchLogs(u, F) ==
    /\ u.role = "admin"
    /\ \E ok \in F :
         /\ CallOutcome(ok)
         /\ IF ~ok
            THEN /\ Ran("fetchLogs", u, "none", FALSE, {"entity"}, <<>>)
                 /\ UNCHANGED localStorage
            ELSE IF isDemoUser(u.id)
            THEN LET r == generateDemoLogs(localStorage)
                 IN /\ localStorage' = r.store
                    /\ Ran("fetchLogs", u, "none", TRUE, {"entity", "demo"}, r.logs)
            ELSE /\ Ran("fetchLogs", u, "none", TRUE, {"entity"}, logs)
                 /\ UNCHANGED localStorage
    /\ UNCHANGED <<courses, logs, staffCourses, isLoading, fetching>>
    /\ StaffUnchanged

\* handleSubmit of AddCourseModal with `sel` selected and `cap` typed.
AddCourse(u, sel, cap, F) ==
    LET instructorId == IF u.role = "instructor" THEN u.id ELSE sel
        instructorName == IF u.role = "admin" THEN InstructorName(instructorId)
                          ELSE u.name
        row == StaffRow(instructorId, instructorName, cap, 0)
    IN IF isDemoUser(u.id)
       THEN \E id \in DemoNewIds :
              /\ id \notin DOMAIN localStorage.demoCourses.value
              /\ id \notin DOMAIN staffCourses[u.id]
              /\ localStorage' = saveCourseToDemoStorage(localStorage, id, row)
              /\ Ran("addCourse", u, id, TRUE, {"demo"}, <<>>)
              /\ fetching' = [fetching EXCEPT ![u.id] = TRUE]
              /\ UNCHANGED <<courses, logs, faults, isLoading, staffCourses>>
              /\ StaffUnchanged
       ELSE \E id \in CatalogIds, ok \in F, ok2 \in F :
              /\ id \notin DOMAIN courses
              /\ \A v \in DOMAIN staffCourses : id \notin DOMAIN staffCourses[v]
              /\ Len(logs) < MaxLogs
              /\ TwoCalls(ok, ok2)
              /\ courses' = IF ok THEN courses @@ (id :> row) ELSE courses
              /\ logs' = IF ok /\ ok2
                         THEN Append(logs, LogRow("course_created", u.id, id))
                         ELSE logs
              /\ Ran("addCourse", u, id, ok, {"entity"}, <<>>)
              /\ fetching' = [fetching EXCEPT ![u.id] = IF ok THEN TRUE ELSE @]
              /\ isLoading' = [isLoading EXCEPT ![u.id] = IF ok THEN TRUE ELSE @]
              /\ UNCHANGED <<localStorage, staffCourses>>
              /\ StaffUnchanged

\* handleSubmit of EditCourseModal, opened on course `c` of the dashboard's
\* list, with `sel` selected and `cap` typed.
EditCourse(u, c, sel, cap, F) ==
    /\ c \in DOMAIN staffCourses[u.id]
    /\ LET course == staffCourses[u.id][c]
           instructorId == IF u.role = "instructor" THEN course.instructor_id ELSE sel
           instructorName ==
               IF u.role = "admin" /\ instructorId # course.instructor_id
               THEN InstructorName(instructorId)
               ELSE course.instructor
       IN IF isDemoUser(u.id)
          THEN /\ localStorage' = updateCourseInDemoStorage(localStorage, c, instructorId,
                                                            instructorName, cap)
               /\ Ran("editCourse", u, c, TRUE, {"demo"}, <<>>)
               /\ fetching' = [fetching EXCEPT ![u.id] = TRUE]
               /\ UNCHANGED <<courses, logs, faults, isLoading>>
          ELSE \E ok \in F, ok2 \in F :
                 LET updated == ok /\ c \in DOMAIN courses
                 IN /\ Len(logs) < MaxLogs
                    /\ TwoCalls(ok, updated => ok2)
                    /\ courses' =
                         IF updated
                         THEN [courses EXCEPT ![c] =
                                 [@ EXCEPT !.instructor_id = instructorId,
                                           !.instructor = instructorName,
                                           !.max_capacity = cap]]
                         ELSE courses
                    /\ logs' = IF updated /\ ok2
                               THEN Append(logs, LogRow("course_updated", u.id, c))
                               ELSE logs
                    /\ Ran("editCourse", u, c, updated, {"entity"}, <<>>)
                    /\ fetching' = [fetching EXCEPT ![u.id] = IF updated THEN TRUE ELSE @]
                    /\ isLoading' = [isLoading EXCEPT ![u.id] = IF updated THEN TRUE ELSE @]
                    /\ UNCHANGED localStorage
    /\ UNCHANGED staffCourses
    /\ StaffUnchanged

\* deleteCourse of AdminDashboard on course `c` of the list, confirmed.  For
\* a demo user the fetchCourses() it calls runs to its end at once.
DeleteCourse(u, c, F) ==
    /\ u.role = "admin"
    /\ c \in DOMAIN staffCourses[u.id]
    /\ IF isDemoUser(u.id)
       THEN /\ Now(localStorage) <= MaxDemoLogs
            /\ LET r == getDemoCoursesFromStorage(
                            removeCourseFromDemoStorage(localStorage, u, c))
               IN /\ localStorage' = r.store
                  /\ staffCourses' = [staffCourses EXCEPT ![u.id] = r.courses]
            /\ Ran("deleteCourse", u, c, TRUE, {"demo"}, <<>>)
            /\ isLoading' = [isLoading EXCEPT ![u.id] = FALSE]
            /\ fetching' = [fetching EXCEPT ![u.id] = FALSE]
            /\ UNCHANGED <<courses, logs, faults>>
       ELSE \E ok \in F, ok2 \in F :
              /\ Len(logs) < MaxLogs
              /\ TwoCalls(ok, ok2)
              /\ courses' = IF ok THEN [k \in DOMAIN courses \ {c} |-> courses[k]]
                            ELSE courses
              /\ logs' = IF ok /\ ok2
                         THEN Append(logs, LogRow("course_deleted", u.id, c))
                         ELSE logs
              /\ Ran("deleteCourse", u, c, ok, {"entity"}, <<>>)
              /\ fetching' = [fetching EXCEPT ![u.id] = IF ok THEN TRUE ELSE @]
              /\ isLoading' = [isLoading EXCEPT ![u.id] = IF ok THEN TRUE ELSE @]
              /\ UNCHANGED <<localStorage, staffCourses>>
    /\ StaffUnchanged

\* The first k students.
FirstStudents(k) == IF k = 0 THEN {} ELSE IF k = 1 THEN {"A"} ELSE Students

\* The dashboards of the staff `U` have just been opened on a store that holds
\* one course, of instructor "ins", with enrollments within its capacity.
InitStaff(U) ==
    /\ \E m \in 1..MaxCapacity, n \in 0..Cardinality(Students) :
         /\ n <= m
         /\ courses = ("X" :> StaffRow("ins", InstructorName("ins"), m, n))
         /\ students = FirstStudents(n)
         /\ enrollments = [p \in Pairs |-> IF p[2] \in FirstStudents(n) THEN 1 ELSE 0]
    /\ logs = <<>>
    /\ localCourses = [s \in Students |-> EmptyList]
    /\ cmds = EmptyBag
    /\ faults = 0
    /\ result = NoResult
    /\ authUsers = [u \in Users |-> "student"]
    /\ profiles = [u \in Users |-> "student"]
    /\ access = NoAccess
    /\ fetching = [id \in {u.id : u \in U} |-> TRUE]
    /\ isLoading = [id \in {u.id : u \in U} |-> TRUE]
    /\ staffCourses = [id \in {u.id : u \in U} |-> EmptyList]
    /\ localStorage = EmptyStorage
    /\ staffOp = NoOp

\* The course fetch of the dashboard the user's role is shown.
StaffFetchCourses(u, F) ==
    IF u.role = "admin" THEN AdminFetchCourses(u, F) ELSE InstructorFetchCourses(u, F)

\* What the staff `U` may do, with store answers of F, instructors of Sels
\* selected and capacities of Caps typed.
StaffNext(U, F, Sels, Caps) ==
    \E u \in U :
        \/ StaffFetchCourses(u, F)
        \/ FetchLogs(u, F)
        \/ \E sel \in Sels, cap \in Caps : AddCourse(u, sel, cap, F)
        \/ \E c \in DOMAIN staffCourses[u.id], sel \in Sels, cap \in Caps :
              EditCourse(u, c, sel, cap, F)
        \/ \E c \in DOMAIN staffCourses[u.id] : DeleteCourse(u, c, F)

\* An admin and an instructor, neither a demo identity, on the Entity Store.
InitCatalog == InitStaff({Admin, Instructor})
NextCatalog ==
    StaffNext({Admin, Instructor}, Answers, DOMAIN InstructorsTable, 1..MaxCapacity)
SpecCatalog == InitCatalog /\ [][NextCatalog]_vars

\* The same staff on a store that never fails.
NextCatalogOk ==
    StaffNext({Admin, Instructor}, NoFault, DOMAIN InstructorsTable, 1..MaxCapacity)
SpecCatalogOk == InitCatalog /\ [][NextCatalogOk]_vars

\* The demo admin in its browser, selecting one instructor and typing one
\* capacity.
InitDemo == InitStaff({DemoAdmin})
NextDemo == StaffNext({DemoAdmin}, Answers, {"ins2"}, {MaxCapacity})
SpecDemo == InitDemo /\ [][NextDemo]_vars

\* ------------------------------------------------------------------- claims

\* The (course, student) pair a handler invocation is about.
PairOf(cmd) == <<cmd.course, cmd.sess>>

\* This step is a step of the handler invocation `cmd`, and the store call it
\* was suspended on returned data, not an error.
Answered(cmd) == CopiesIn(cmd, cmds') < CopiesIn(cmd, cmds) /\ faults' = faults

\* The stored counter of a course, and its capacity.
Stored(c) == courses[c].current_enrollment
Capacity(c) == courses[c].max_capacity

\* C1: a fresh enrollInCourse (the pair has no row, every store call succeeds)
\* succeeds iff the stored current_enrollment is below max_capacity when the
\* capacity check is evaluated; after a success the stored counter is exactly
\* one greater than before the command and the pair has its row.  Checked
\* on commands that do not overlap, where the stored counter a step sees is
\* the one the command started with.
C1_EnrollStep ==
    \A cmd \in Running :
        (cmd.kind = "enroll" /\ ~cmd.faulted /\ Answered(cmd)) =>
            /\ ( /\ cmd.pc \in {"students_select", "students_insert"}
                 /\ enrollments[PairOf(cmd)] = 0
                 /\ \/ result'.outcome = "full"
                    \/ \E n \in Running' : n.pc = "enroll_insert" )
               => ( (result'.outcome # "full")
                      <=> Stored(cmd.course) < Capacity(cmd.course) )
            /\ cmd.pc = "enroll_count"
               => Stored(cmd.course)' = Stored(cmd.course) + 1
            /\ cmd.pc = "enroll_log"
               => result'.outcome = "success" /\ enrollments'[PairOf(cmd)] = 1
C1_FreshEnrollFollowsStoredCounter == [][C1_EnrollStep]_vars

\* No dropCourse call has run or is running, and no store call has failed.
OnlyEnrollsSoFar ==
    /\ faults = 0
    /\ \A k \in 1..Len(logs) : logs[k].action # "student_dropped"
    /\ \A cmd \in Running : cmd.kind # "drop"
    /\ result.cmd.kind # "drop"

\* C2: as long as commands do not overlap in time, no course has more
\* enrollment rows than its max_capacity.  Stated for the histories of the
\* claim's own scenario, in which only enrollInCourse calls have run: with
\* max_capacity = 1 and A enrolled, an enroll by B must not add a row.
C2_RowsWithinCapacity ==
    OnlyEnrollsSoFar =>
        \A c \in Courses : RowCount(enrollments, c) <= Capacity(c)

\* C3: there is at most one enrollment row for any (course, student) pair,
\* whatever sequence and interleaving of enroll and drop commands has run.
C3_OneRowPerPair == \A p \in Pairs : enrollments[p] <= 1

\* C3's case: of two enrollInCourse calls running at once for one pair, the
\* second insert has just been rejected and the pair has its single row.
C3_SecondInsertRejected ==
    /\ result.outcome = "duplicate"
    /\ enrollments[PairOf(result.cmd)] = 1
    /\ \E cmd \in Running :
          PairOf(cmd) = PairOf(result.cmd) /\ cmd.kind = "enroll"
             /\ "enrollments" \in cmd.writes

\* The course list a handler started with showed its course full.
StartedFull(cmd) ==
    cmd.snap.found /\ cmd.snap.current_enrollment >= cmd.snap.max_capacity

\* An enrollInCourse call has just ended without inserting, no store call of
\* its having failed, and the pair has a row: the row was there before it.
EndedOnExistingRow ==
    /\ result.cmd.kind = "enroll"
    /\ ~result.cmd.faulted
    /\ "enrollments" \notin result.cmd.writes
    /\ enrollments[PairOf(result.cmd)] > 0

C6_CounterEqualsRows ==
    (Idle /\ faults = 0 /\ "enrollments" \in result.cmd.writes) =>
        \A c \in Courses : Stored(c) = RowCount(enrollments, c)

\* C7: no step of an enrollInCourse call removes an enrollment row (rows go
\* away only in the delete of a dropCourse call for that pair), so the row in
\* excess of max_capacity that two racing calls insert stays.
C7_Step ==
    \A p \in Pairs :
        enrollments'[p] < enrollments[p] =>
            \E cmd \in Running :
                /\ cmd.kind = "drop" /\ cmd.pc = "drop_delete" /\ PairOf(cmd) = p
                /\ CopiesIn(cmd, cmds') < CopiesIn(cmd, cmds)
C7_EnrollNeverRemovesRow == [][C7_Step]_vars

\* C7's case: two sessions started enrollInCourse on a course with exactly one
\* free seat, both passed the capacity check and both inserted: the course has
\* more rows than max_capacity.
C7_BothInserted ==
    \E a, b \in Running :
        /\ a.sess # b.sess /\ a.course = b.course
        /\ \A cmd \in {a, b} :
              /\ cmd.kind = "enroll" /\ cmd.pc = "enroll_count"
              /\ cmd.snap.found
              /\ cmd.snap.current_enrollment = cmd.snap.max_capacity - 1
              /\ cmd.snap.max_capacity = Capacity(cmd.course)
        /\ RowCount(enrollments, a.course) > Capacity(a.course)

\* C8: within one session no two commands are in progress at the same time.
C8_OneCommandPerSession ==
    \A s \in Students :
        /\ Cardinality({cmd \in Running : cmd.sess = s}) <= 1
        /\ \A cmd \in Running : CopiesIn(cmd, cmds) <= 1

\* C9: dropCourse for a pair that has its row (every store call succeeding)
\* removes the row, sets the stored counter to its previous stored value minus
\* one (0 if it was 0) and appends exactly one 'student_dropped' log entry.
\* Checked on commands that do not overlap, where the stored counter a step
\* sees is the one the command started with.
C9_DropStep ==
    \A cmd \in Running :
        (cmd.kind = "drop" /\ ~cmd.faulted /\ Answered(cmd)) =>
            /\ (cmd.pc = "drop_delete" /\ enrollments[PairOf(cmd)] > 0)
               => (enrollments'[PairOf(cmd)] = 0 /\ logs' = logs)
            /\ (cmd.pc = "drop_count" /\ "enrollments" \in cmd.writes)
               => /\ Stored(cmd.course)' =
                        IF Stored(cmd.course) > 0 THEN Stored(cmd.course) - 1 ELSE 0
                  /\ logs' = logs
            /\ (cmd.pc = "drop_log" /\ "enrollments" \in cmd.writes)
               => logs' = Append(logs, LogRow("student_dropped", cmd.sess, cmd.course))
C9_DropDecrementsStoredCounter == [][C9_DropStep]_vars

\* C10: dropCourse for a pair that has no row removes no row and leaves the
\* stored counter of the course as it was.
C10_DropStep ==
    \A cmd \in Running :
        ( /\ cmd.kind = "drop"
          /\ CopiesIn(cmd, cmds') < CopiesIn(cmd, cmds)
          /\ \/ cmd.pc = "drop_delete" /\ enrollments[PairOf(cmd)] = 0
             \/ cmd.pc \in {"drop_count", "drop_log"} /\ "enrollments" \notin cmd.writes )
        => (enrollments' = enrollments /\ Stored(cmd.course)' = Stored(cmd.course))
C10_DropOfNoRowIsNoOp == [][C10_DropStep]_vars

\* C11: the stored current_enrollment of every course is at least 0, whatever
\* sequence and interleaving of enroll and drop commands has run, drops of
\* pairs without a row and drops on a stale course list included.
C11_CounterNonNegative == \A c \in Courses : Stored(c) >= 0

\* C11's case: a dropCourse call whose course list showed the course at 0
\* (stale: the store had rows of the course) has just written the counter.
C11_DropOnZeroSnapshot ==
    \E cmd \in Running :
        /\ cmd.kind = "drop" /\ cmd.pc = "drop_log"
        /\ cmd.snap.found /\ cmd.snap.current_enrollment = 0
        /\ "courses" \in cmd.writes
        /\ Stored(cmd.course) = 0
        /\ RowCount(enrollments, cmd.course) > 0

\* This step is a step of the handler invocation `cmd`, and the store call it
\* was suspended on returned an error.
Failed(cmd) == CopiesIn(cmd, cmds') < CopiesIn(cmd, cmds) /\ faults' = faults + 1

\* The handler invocation `cmd` goes on, suspended on the call `pc`.
GoesOnAt(cmd, pc) ==
    \E n \in Running' :
        /\ n.pc = pc /\ n.kind = cmd.kind /\ PairOf(n) = PairOf(cmd)
        /\ n.faulted /\ n.writes = cmd.writes

\* C12: when the counter update of enrollInCourse fails after the insert, the
\* row is kept, the stored counter keeps its value, and the command goes on
\* to append its log entry and report success; when the counter update of
\* dropCourse fails after the delete, the row stays deleted, the counter keeps
\* its value and the command likewise goes on to its log entry and success.
C12_Step ==
    \A cmd \in Running :
        /\ (cmd.pc = "enroll_count" /\ Failed(cmd))
           => /\ enrollments' = enrollments /\ enrollments[PairOf(cmd)] = 1
              /\ courses' = courses
              /\ GoesOnAt(cmd, "enroll_log")
        /\ (cmd.pc = "drop_count" /\ Failed(cmd))
           => /\ enrollments' = enrollments /\ enrollments[PairOf(cmd)] = 0
              /\ courses' = courses
              /\ GoesOnAt(cmd, "drop_log")
        /\ ( /\ cmd.pc \in {"enroll_log", "drop_log"}
             /\ "courses" \notin cmd.writes
             /\ Answered(cmd) )
           => /\ result'.outcome = "success"
              /\ logs' = Append(logs,
                     LogRow(IF cmd.kind = "enroll" THEN "student_enrolled"
                            ELSE "student_dropped", cmd.sess, cmd.course))
              /\ enrollments' = enrollments /\ courses' = courses
              /\ enrollments[PairOf(cmd)] = IF cmd.kind = "enroll" THEN 1 ELSE 0
C12_CounterFailureNotReconciled == [][C12_Step]_vars

\* C12's case: an enrollInCourse call whose counter update failed has reported
\* success; its row and its log entry are there and the stored counter, left
\* as it was, is below the number of rows.
C12_EnrolledWithoutCount ==
    /\ result.outcome = "success" /\ result.cmd.kind = "enroll"
    /\ result.cmd.faulted
    /\ result.cmd.writes \cap {"enrollments", "courses", "logs"} = {"enrollments", "logs"}
    /\ enrollments[PairOf(result.cmd)] = 1
    /\ Stored(result.cmd.course) < RowCount(enrollments, result.cmd.course)

\* C12's other case: a dropCourse call whose counter update failed after the
\* delete has reported success; the row is gone and the counter is too high.
C12_DroppedWithoutCount ==
    /\ result.outcome = "success" /\ result.cmd.kind = "drop"
    /\ result.cmd.faulted
    /\ result.cmd.writes = {"enrollments", "logs"}
    /\ enrollments[PairOf(result.cmd)] = 0
    /\ Stored(result.cmd.course) > RowCount(enrollments, result.cmd.course)

\* The notifications that tell the user of an error (toast.error).
ErrorOutcomes == {"profile_failed", "enroll_failed", "drop_failed"}

\* C13: for every store call of enrollInCourse and dropCourse, an error the
\* call returns leads to an error notification to the user, and the command
\* does not issue the failed call a second time.
C13_Step ==
    \A cmd \in Running :
        Failed(cmd) =>
            /\ result'.outcome \in ErrorOutcomes
            /\ \A n \in Running' :
                  (n.pc = cmd.pc /\ PairOf(n) = PairOf(cmd)) => n \in Running
C13_EveryErrorNotified == [][C13_Step]_vars

\* The four tables are left as they were.
StoreUnchanged == UNCHANGED <<students, enrollments, courses, logs>>

\* C14: when the caller has no students row and the read of the caller's
\* profile fails, enrollInCourse ends with the profile error and has written
\* nothing; when the students row exists, ensureStudentProfile writes nothing;
\* and when an enrollInCourse call reports success the caller has a students
\* row.
C14_Step ==
    \A cmd \in Running :
        /\ (cmd.pc = "profile_select" /\ cmd.sess \notin students /\ Failed(cmd))
           => /\ result'.outcome = "profile_failed"
              /\ result'.cmd.writes = {}
              /\ StoreUnchanged
        /\ ( /\ cmd.pc = "students_select" /\ cmd.sess \in students
             /\ Answered(cmd) )
           => /\ StoreUnchanged
              /\ result'.cmd.writes = {}
              /\ \A n \in Running' : n.writes = {} /\ n.pc # "students_insert"
        /\ (cmd.kind = "enroll" /\ Answered(cmd) /\ result'.outcome = "success")
           => cmd.sess \in students'
C14_ProfileEnsuredBeforeEnroll == [][C14_Step]_vars

\* C14's case: an enrollInCourse call of a student who had no students row
\* has created the row and reported success.
C14_EnrolledWithNewStudentRow ==
    /\ result.outcome = "success" /\ result.cmd.kind = "enroll"
    /\ "students" \in result.cmd.writes
    /\ result.cmd.sess \in students
    /\ enrollments[PairOf(result.cmd)] = 1

\* The role claim of a caller: the role attribute of its auth.users record.
RoleClaim(caller) == IF caller.uid = Null THEN Null ELSE authUsers[caller.uid]

\* The store has just decided on statement `op` of an authenticated caller.
DecidedFor(op) == access.op = op /\ access.caller.dbrole = "authenticated"

\* C15: an authenticated caller's read of a user_profiles row is permitted
\* iff the row id is the caller id or the caller's role claim is admin: an
\* admin reads any row, a student or instructor only its own.
C15_ProfileReadOwnOrAdmin ==
    DecidedFor("select_profile") =>
        /\ access.permitted <=>
              (access.row = access.caller.uid \/ RoleClaim(access.caller) = "admin")
        /\ access.fields = IF access.permitted THEN {ProfileFields(access.row)} ELSE {}

\* C15's case: an admin has read the profile row of another identity.
C15_AdminReadOther ==
    /\ DecidedFor("select_profile") /\ access.permitted
    /\ access.row # access.caller.uid
    /\ RoleClaim(access.caller) = "admin"
    /\ access.fields # {}

\* C16: the profile fields get_user_profile_direct returns to an authenticated
\* caller are fields of a row the caller may read under the row policy, so a
\* caller who is not admin learns no other identity's profile.
C16_DirectLookupWithinReadPolicy ==
    DecidedFor("get_user_profile_direct") =>
        \A f \in access.fields : allow_users_to_read_own_profile(access.caller, f.id)

\* C17: an authenticated caller's read of a students row is permitted iff the
\* row id is the caller id or the caller's role claim is admin or instructor.
C17_StudentReadOwnOrStaff ==
    DecidedFor("select_student") =>
        ( access.permitted <=>
            \/ access.row = access.caller.uid
            \/ RoleClaim(access.caller) \in {"admin", "instructor"} )

\* C17's case: a caller with role student was denied another student's row.
C17_StudentDeniedOther ==
    /\ DecidedFor("select_student") /\ ~access.permitted
    /\ access.row # access.caller.uid
    /\ RoleClaim(access.caller) = "student"
    /\ access.caller.uid \in students

\* Every decision the policies would take in the current state.
Decisions ==
    [caller \in Callers, id \in Users, newId \in Users |->
        << allow_users_to_read_own_profile(caller, id),
           allow_users_to_update_own_profile(caller, id, newId),
           allow_users_to_create_profile_during_signup(caller, newId),
           allow_students_to_read_own_record(caller, id),
           allow_students_to_update_own_record(caller, id, newId),
           allow_students_to_create_own_record(caller, newId) >>]

\* C18: the decisions depend on the caller's id and its role claim in
\* auth.users only: between two states that differ in user_profiles rows (the
\* role field or any other) and not in auth.users, every decision for every
\* caller and row is the same, so a caller who sets the role of its own
\* profile row gains nothing.
C18_Step ==
    (profiles' # profiles /\ authUsers' = authUsers) => Decisions' = Decisions
C18_DecisionsIgnoreProfileRows == [][C18_Step]_vars

\* C18's case: a caller whose role claim is student has a profile row whose
\* role field says admin, and was denied the profile row of another identity.
C18_SelfPromotedStillDenied ==
    /\ DecidedFor("select_profile") /\ ~access.permitted
    /\ access.row # access.caller.uid
    /\ RoleClaim(access.caller) = "student"
    /\ profiles[access.caller.uid] = "admin"

\* C19: an update of a user_profiles row and an insert or update of a
\* students row by an authenticated caller is permitted only when the row id
\* is the caller id before and after the write; the rows of other identities
\* are left as they were, also when the caller is an admin.
C19_Step ==
    access'.op \in {"update_profile", "update_student", "insert_student"} =>
        /\ access'.permitted =>
              (access'.row = access'.caller.uid /\ access'.newId = access'.caller.uid)
        /\ \A u \in Users \ {access'.caller.uid} :
              profiles'[u] = profiles[u] /\ (u \in students' <=> u \in students)
C19_WritesOwnRowOnly == [][C19_Step]_vars

\* C19's case: an admin's update of another identity's profile row was denied.
C19_AdminDeniedOtherRow ==
    /\ DecidedFor("update_profile") /\ ~access.permitted
    /\ access.row # access.caller.uid
    /\ access.newId = access.row
    /\ RoleClaim(access.caller) = "admin"

\* C20: an insert of a user_profiles row is permitted iff the caller is
\* anonymous (no caller id) or the new row's id is the caller id.
C20_ProfileInsertOwnOrAnon ==
    access.op = "insert_profile" =>
        ( access.permitted <=>
            (access.caller.uid = Null \/ access.newId = access.caller.uid) )

\* C20's case: an authenticated caller's insert of a profile row for another
\* identity was refused, and that identity has no row.
C20_InsertForOtherRefused ==
    /\ DecidedFor("insert_profile") /\ ~access.permitted
    /\ access.newId # access.caller.uid
    /\ profiles[access.newId] = Absent

\* The step is a step of `cmd` that issues a write to table `t`.
Writes(cmd, t) ==
    /\ CopiesIn(cmd, cmds') < CopiesIn(cmd, cmds)
    /\ \/ \E n \in Running' :
             PairOf(n) = PairOf(cmd) /\ t \in n.writes /\ t \notin cmd.writes
       \/ t \in result'.cmd.writes /\ t \notin cmd.writes

\* C26: within one enrollInCourse call the writes come in the order
\* enrollment insert, counter update, log append; the counter update and the
\* 'student_enrolled' entry are issued only after the insert of the same call
\* has succeeded, so an enroll that failed or was rejected has changed neither
\* the counter nor the log.
C26_Step ==
    /\ \A cmd \in Running :
          cmd.kind = "enroll" =>
            /\ cmd.pc = "enroll_count" => "enrollments" \in cmd.writes
            /\ cmd.pc = "enroll_log" => "enrollments" \in cmd.writes
            /\ Writes(cmd, "enrollments") => cmd.writes \cap {"courses", "logs"} = {}
            /\ Writes(cmd, "courses")
                 => ("enrollments" \in cmd.writes /\ "logs" \notin cmd.writes)
            /\ Writes(cmd, "logs") => "enrollments" \in cmd.writes
            /\ ~Writes(cmd, "courses") /\ CopiesIn(cmd, cmds') < CopiesIn(cmd, cmds)
                 => courses' = courses
            /\ ~Writes(cmd, "logs") /\ CopiesIn(cmd, cmds') < CopiesIn(cmd, cmds)
                 => logs' = logs
    /\ ( /\ result'.cmd.kind = "enroll"
         /\ result'.outcome \in {"full", "duplicate", "enroll_failed", "profile_failed"} )
       => result'.cmd.writes \cap {"enrollments", "courses", "logs"} = {}
C26_InsertThenCountThenLog == [][C26_Step]_vars

\* C26's case: an enrollInCourse call was rejected by the store as a
\* duplicate; it has written nothing and the log is as it was.
C26_RejectedWroteNothing ==
    /\ result.outcome = "duplicate" /\ result.cmd.kind = "enroll"
    /\ result.cmd.writes \cap {"enrollments", "courses", "logs"} = {}
    /\ enrollments[PairOf(result.cmd)] = 1
    /\ logs = <<>>

\* Every notification of an error (toast.error) enrollInCourse and dropCourse
\* can end with.
ErrorReports == ErrorOutcomes \cup {"full", "duplicate"}

\* C27: every enrollInCourse and dropCourse invocation terminates when each
\* store call eventually returns; it ends with exactly one report, which is
\* success if and only if its enrollment insert (its delete) succeeded and an
\* error in every other case.
C27_Step ==
    \A cmd \in Running :
        CopiesIn(cmd, cmds') < CopiesIn(cmd, cmds) =>
            /\ result'.outcome \in {"none", "success"} \cup ErrorReports
            /\ result'.outcome = "success" <=> cmd.pc \in {"enroll_log", "drop_log"}
            /\ cmd.pc \in {"enroll_count", "enroll_log"} => "enrollments" \in cmd.writes
            /\ cmd.pc = "enroll_insert"
                 => /\ Writes(cmd, "enrollments") <=> result'.outcome = "none"
                    /\ ~Writes(cmd, "enrollments") => result'.outcome \in ErrorReports
                    /\ Writes(cmd, "enrollments") => GoesOnAt(cmd, "enroll_count")
                                                     \/ \E n \in Running' : n.pc = "enroll_count"
            /\ cmd.pc = "drop_delete"
                 => /\ Answered(cmd) <=> result'.outcome = "none"
                    /\ Failed(cmd) => result'.outcome = "drop_failed"
            /\ cmd.pc \in {"enroll_count", "drop_count"} => result'.outcome = "none"
            /\ result'.outcome # "none" => \A n \in Running' : n \in Running
C27_Reports ==
    /\ (result.cmd.kind = "enroll" /\ result.outcome = "success")
         => "enrollments" \in result.cmd.writes
    /\ (result.cmd.kind = "enroll" /\ result.outcome \in ErrorReports)
         => "enrollments" \notin result.cmd.writes
    /\ (result.cmd.kind = "drop" /\ result.outcome \in ErrorReports)
         => result.cmd.writes = {}
C27_TerminatesWithOneReport ==
    /\ [][C27_Step]_vars
    /\ []C27_Reports
    /\ (~Idle) ~> Idle

\* C27's case: an enrollInCourse call whose insert succeeded and whose later
\* counter update or log append failed has ended, reporting success.
C27_SuccessAfterLaterFailure ==
    /\ result.outcome = "success" /\ result.cmd.kind = "enroll"
    /\ result.cmd.faulted /\ "enrollments" \in result.cmd.writes
    /\ Idle

\* C21: get_user_profile_direct is run for authenticated callers only (the
\* call of an anonymous caller is rejected), and no invocation changes any
\* table.
C21_Step ==
    (access' # access /\ access'.op = "get_user_profile_direct") =>
        /\ access'.permitted => access'.caller.dbrole = "authenticated"
        /\ ~access'.permitted => access'.fields = {}
        /\ StoreUnchanged /\ UNCHANGED <<authUsers, profiles>>
C21_DirectLookupAuthenticatedReadOnly == [][C21_Step]_vars

\* The half of C21 that holds: no invocation of get_user_profile_direct, by
\* any caller, changes any table.
C21_DirectLookupReadOnly ==
    [][(access' # access /\ access'.op = "get_user_profile_direct")
         => (StoreUnchanged /\ UNCHANGED <<authUsers, profiles>>)]_vars

\* The three sentinel ids.
SentinelIds == {DemoAdminId, DemoStudentId, DemoInstructorId}

\* C22: for a caller whose id is not a sentinel id, no command (list courses,
\* add, edit, delete course, list logs) reads or writes the demo local store
\* (demoCourses, demoLogs): every such command goes to the Entity Store only,
\* and nothing is ever put into the local store or taken from it.
C22_Step ==
    staffOp'.user \notin SentinelIds =>
        /\ staffOp'.touched \subseteq {"entity"}
        /\ localStorage' = localStorage
        /\ localStorage' = EmptyStorage
        /\ DOMAIN courses' \cap (DOMAIN SampleCourses \cup DemoNewIds) = {}
C22_NonSentinelNeverUsesDemoStore == [][C22_Step]_vars

\* C22's case: an admin that is no demo identity has deleted a course; the
\* delete went to the Entity Store and the local store has neither key.
C22_RealAdminDeleted ==
    /\ staffOp.name = "deleteCourse" /\ staffOp.user = Admin.id /\ staffOp.ok
    /\ staffOp.user \notin SentinelIds
    /\ staffOp.touched = {"entity"}
    /\ staffOp.course \notin DOMAIN courses
    /\ localStorage = EmptyStorage

\* C23: for a caller whose id is a sentinel id, every operation is served by
\* the demo local store and issues no read or write against the Entity Store.
C23_SentinelNeverUsesEntityStore ==
    staffOp.user \in SentinelIds => staffOp.touched \subseteq {"demo"}

\* C24: the demo course store is seeded with the sample courses on first use
\* only: once it holds a sample course, no later demo operation writes a
\* sample course into it again.
C24_Step ==
    LET old == localStorage.demoCourses.value
        new == localStorage'.demoCourses.value
    IN (\E k \in DOMAIN SampleCourses : k \in DOMAIN old) =>
          \A k \in DOMAIN SampleCourses :
              (k \in DOMAIN new /\ new[k] = SampleCourses[k])
                 => (k \in DOMAIN old /\ old[k] = SampleCourses[k])
C24_SeededOnce == [][C24_Step]_vars

\* Every entry of the first log is an entry of the second.
Kept(before, after) ==
    \A i \in 1..Len(before) : \E j \in 1..Len(after) : after[j] = before[i]

\* C25: the action log is append-only, in the Entity Store and in the demo
\* log alike: every entry present before a step is present and unmodified
\* after it.
C25_Step ==
    /\ Kept(logs, logs')
    /\ Kept(localStorage.demoLogs.value, localStorage'.demoLogs.value)
C25_LogsAppendOnly == [][C25_Step]_vars

\* C28: a caller with role instructor never assigns a course to another
\* instructor: a course it adds has its own id as instructor_id whatever is
\* selected, and an edit it submits leaves the course's instructor_id and
\* instructor name as they are stored.
C28_Step ==
    (staffOp'.user = Instructor.id /\ courses' # courses) =>
        LET c == staffOp'.course
        IN IF staffOp'.name = "addCourse"
           THEN courses'[c].instructor_id = Instructor.id
           ELSE /\ courses'[c].instructor_id = courses[c].instructor_id
                /\ courses'[c].instructor = courses[c].instructor
C28_InstructorNeverReassigns == [][C28_Step]_vars

\* C29: after every successful EditCourseModal update the course's
\* max_capacity is at least its stored current_enrollment, and the update
\* leaves current_enrollment as it was.
C29_Step ==
    (staffOp'.name = "editCourse" /\ staffOp'.ok /\ courses' # courses) =>
        LET c == staffOp'.course
        IN /\ courses'[c].max_capacity >= courses'[c].current_enrollment
           /\ courses'[c].current_enrollment = courses[c].current_enrollment
C29_EditKeepsWithinCapacity == [][C29_Step]_vars

\* The half of C29 that holds: an edit leaves current_enrollment as it was.
C29_EditKeepsCounter ==
    [][\A c \in DOMAIN courses :
          (staffOp'.name = "editCourse" /\ c \in DOMAIN courses')
             => courses'[c].current_enrollment = courses[c].current_enrollment]_vars

\* C30: in each dashboard the loading flag a course fetch has set is cleared
\* once the store call has returned, with data or with an error: no
\* dashboard shows the loading view when no fetch of its is outstanding.
C30_LoadingClearedAfterFetch ==
    \A d \in DOMAIN isLoading : ~fetching[d] => ~isLoading[d]

====
